---- MODULE Spec2Model ----
(***************************************************************************)
(* Model of the canvas animation of src/src/App.js: the topology layout    *)
(* generators, the packet engine and the animation driver (the canvas      *)
(* useEffect with animate, resizeCanvas and its cleanup).                  *)
(*                                                                         *)
(* Numbers.  Coordinates are whole pixels; the products with the fractions *)
(* 0.1, 0.15, ... and with cos/sin are computed in fixed point and floored.*)
(* distanceTraveled is kept in units of 1/32 px, so that                   *)
(* packetSpeed * (deltaTime / 16) = 1.5 * deltaTime / 16 is the integer    *)
(* 3 * deltaTime.  Math.random() returns one of RandomValues / 1000.       *)
(***************************************************************************)
EXTENDS Integers, Sequences, FiniteSets, TLC

VARIABLES
    \* ---- the animation driver (specification Spec) ----
    phase,              \* "unmounted0" before the effect ran, "mounted", "unmounted"
    selectedTopology,   \* React state selectedTopology of the current render
    canvasWidth,        \* canvas.width
    canvasHeight,       \* canvas.height
    gen,                \* number of times the canvas effect has run
    closure,            \* per effect run: the variables its closure captured
    animationFrameId,   \* animationFrameId.current (0 models null)
    pending,            \* the browser's list of animation-frame callbacks
    listeners,          \* effect runs whose resizeCanvas is a window listener
    now,                \* performance.now() / the last frame timestamp, in ms
    hung,               \* a handler is spinning in a placement loop forever
    lastOp,             \* the handler that ran last
    frameParity,        \* flips on every callback-driven frame step
    \* ---- one call of a layout generator (specification LayoutSpec) ----
    lkind, lwidth, lpc, ldevices, lattempts, lresult,
    \* ---- one packet from spawn to removal (specification PacketSpec) ----
    pkPc,               \* "idle", "spawn" or "update"
    pkPath,             \* randomPath: <<>> (no path) or <<path>>
    pkTime,             \* currentTime of the spawning frame
    pkElapsed,          \* deltaTime handed to every updatePackets call
    pkClosure,          \* the packets / lastSpawnTime the steps work on
    pkUpdates           \* updatePackets calls made so far

drvVars == <<phase, selectedTopology, canvasWidth, canvasHeight, gen, closure,
             animationFrameId, pending, listeners, now, hung, lastOp, frameParity>>
layVars == <<lkind, lwidth, lpc, ldevices, lattempts, lresult>>
pktVars == <<pkPc, pkPath, pkTime, pkElapsed, pkClosure, pkUpdates>>
vars == <<drvVars, layVars, pktVars>>

-----------------------------------------------------------------------------
(* Program constants *)
deviceRadius == 15
packetInterval == 1000
numDevices == 5
hybridDevices == 3
maxCanvasHeight == 400

(* Bounds of the model *)
MaxTicks == 4                        \* the model's clock stops after this many half seconds
MaxEffects == 2                      \* runs of the effect: mount plus topology changes
MaxAttempts == 2                     \* rejected candidates that are counted
MaxTime == 500 * MaxTicks

(* Input sets *)
Widths == {0, 240}                   \* canvas.offsetWidth seen by the driver
LayoutWidths == Widths \cup {260, 700}   \* widths the generators are called with
RandomValues == {0, 300, 900}        \* Math.random() * 1000
Deltas == {500, 1000}                \* ms between two frame timestamps
EventDelays == {0, 500}              \* ms from the last step to a resize or re-render
StartTimes == {0, 1200}              \* performance.now() when the effect first runs
Options == {"star", "mesh", "bus", "tree", "hybrid"}   \* the <select> options
Kinds == Options \cup {"ring", "Star", ""}   \* and values the switch does not know

Min(a, b) == IF a <= b THEN a ELSE b
Max(a, b) == IF a >= b THEN a ELSE b
Sq(a) == a * a

\* canvas.height = Math.min(canvas.offsetWidth * 0.6, 400)
HeightFor(w) == Min((w * 6) \div 10, maxCanvasHeight)

\* 1000 * cos and 1000 * sin of (i / n) * 2 * PI, for the n the code uses
Cos1000(i, n) ==
    IF n = 5 THEN <<1000, 309, -809, -809, 309>>[i + 1]
             ELSE <<1000, -500, -500>>[i + 1]
Sin1000(i, n) ==
    IF n = 5 THEN <<0, 951, 588, -588, -951>>[i + 1]
             ELSE <<0, 866, -866>>[i + 1]

Node(x, y, label) == [x |-> x, y |-> y, label |-> label]
Pt(n) == <<n.x, n.y>>
\* `Device ${i + 1}` and the like
DeviceLabel(i) == <<"Device 1", "Device 2", "Device 3", "Device 4", "Device 5">>[i]
StarDevLabel(i) == <<"S-Dev 1", "S-Dev 2", "S-Dev 3">>[i]
MeshDevLabel(i) == <<"M-Dev 1", "M-Dev 2", "M-Dev 3">>[i]

\* Flatten a sequence of pairs of paths into one sequence of paths
RECURSIVE Concat(_)
Concat(ss) == IF ss = <<>> THEN <<>> ELSE Head(ss) \o Concat(Tail(ss))

-----------------------------------------------------------------------------
(* Layout generators.  Each returns [nodes |-> the devices drawn by        *)
(* drawDevice, in order, paths |-> the returned paths].                    *)

StarDevice(w, h, i) ==
    LET spreadRadius == (Min(w, h) * 35) \div 100
    IN  Node((w \div 2) + (spreadRadius * Cos1000(i, numDevices)) \div 1000,
             (h \div 2) + (spreadRadius * Sin1000(i, numDevices)) \div 1000,
             DeviceLabel(i + 1))

StarPathsMutOneWay(hub, devices) ==
    [i \in 1..Len(devices) |-> <<hub, devices[i]>>]

StarPaths(hub, devices) ==
    Concat([i \in 1..Len(devices) |-> << <<hub, devices[i]>>, <<devices[i], hub>> >>])

drawStarTopology(w, h) ==
    LET hub == Node(w \div 2, h \div 2, "Router/Hub")
        devices == [i \in 1..numDevices |-> StarDevice(w, h, i - 1)]
    IN  [nodes |-> <<hub>> \o devices, paths |-> StarPaths(hub, devices)]

\* the collision test of the inner for loop: dist < r * 4 for some placed device
CollisionMutLastOnly(x, y, devices, r) ==
    /\ devices # <<>>
    /\ Sq(x - devices[Len(devices)].x) + Sq(y - devices[Len(devices)].y) < Sq(r * 4)

Collision(x, y, devices, r) ==
    \E i \in 1..Len(devices) :
        Sq(x - devices[i].x) + Sq(y - devices[i].y) < Sq(r * 4)

\* x = padding + Math.random() * (width - 2 * padding), likewise y
MeshCandidate(w, h, r, rx, ry) ==
    LET padding == r * 2
    IN  [x |-> padding + (rx * (w - 2 * padding)) \div 1000,
         y |-> padding + (ry * (h - 2 * padding)) \div 1000]

\* the nested i < j loops over the placed devices
MeshPaths(devices) ==
    Concat([k \in 1..(Len(devices) * Len(devices)) |->
        LET i == ((k - 1) \div Len(devices)) + 1
            j == ((k - 1) % Len(devices)) + 1
        IN  IF i < j THEN << <<devices[i], devices[j]>>, <<devices[j], devices[i]>> >>
                     ELSE <<>>])

MeshResult(devices) == [nodes |-> devices, paths |-> MeshPaths(devices)]

BusNodesMutOnDevices(devices, busY) == devices

\* busNodes = devices.map(d => ({ x: d.x, y: busY }))
BusNodes(devices, busY) ==
    [i \in 1..Len(devices) |-> Node(devices[i].x, busY, "")]

drawBusTopology(w, h, r) ==
    LET busY == h \div 2
        startX == w \div 10
        endX == (w * 9) \div 10
        deviceSpacing == (endX - startX) \div (numDevices - 1)
        devices == [i \in 1..numDevices |->
                       Node(startX + (i - 1) * deviceSpacing, busY + r * 2, DeviceLabel(i))]
        busNodes == BusNodes(devices, busY)
    IN  [nodes |-> devices,
         paths |-> Concat([i \in 1..(Len(busNodes) - 1) |->
                      << <<busNodes[i], busNodes[i + 1]>>, <<busNodes[i + 1], busNodes[i]>> >>])]

TreeLeaves(w, level2Y) ==
    << Node((w * 15) \div 100, level2Y, DeviceLabel(1)),
       Node((w * 35) \div 100, level2Y, DeviceLabel(2)),
       Node((w * 65) \div 100, level2Y, DeviceLabel(3)),
       Node((w * 85) \div 100, level2Y, DeviceLabel(4)) >>

drawTreeTopology(w, h) ==
    LET root == Node(w \div 2, (h * 15) \div 100, "Root Hub")
        level1A == Node((w * 25) \div 100, (h * 45) \div 100, "Sub-Hub A")
        level1B == Node((w * 75) \div 100, (h * 45) \div 100, "Sub-Hub B")
        devices == TreeLeaves(w, (h * 75) \div 100)
        Both(a, b) == << <<a, b>>, <<b, a>> >>
    IN  [nodes |-> <<root, level1A, level1B>> \o devices,
         paths |-> Both(root, level1A) \o Both(root, level1B)
                   \o Both(level1A, devices[1]) \o Both(level1A, devices[2])
                   \o Both(level1B, devices[3]) \o Both(level1B, devices[4])]

\* x = meshPaddingX + Math.random() * meshWidth, likewise y
HybridCandidate(w, h, rx, ry) ==
    [x |-> ((w * 6) \div 10) + (rx * ((w * 3) \div 10)) \div 1000,
     y |-> (h \div 10) + (ry * ((h * 8) \div 10)) \div 1000]

HybridStarHub(w, h) == Node((w * 25) \div 100, h \div 2, "Star Hub")

HybridStarDevice(w, h, i) ==
    LET starSpread == w \div 10
    IN  Node(((w * 25) \div 100) + (starSpread * Cos1000(i, hybridDevices)) \div 1000,
             (h \div 2) + (starSpread * Sin1000(i, hybridDevices)) \div 1000,
             StarDevLabel(i + 1))

HybridResult(w, h, meshDevices) ==
    LET starHub == HybridStarHub(w, h)
        starDevices == [i \in 1..hybridDevices |-> HybridStarDevice(w, h, i - 1)]
    IN  [nodes |-> <<starHub>> \o starDevices \o meshDevices,
         paths |-> StarPaths(starHub, starDevices) \o MeshPaths(meshDevices)
                   \o IF Len(starDevices) > 0 /\ Len(meshDevices) > 0
                      THEN << <<starHub, meshDevices[1]>>, <<meshDevices[1], starHub>> >>
                      ELSE <<>>]

\* the devices the randomized placement loop of `kind` has to place
ToPlace(kind) == IF kind = "mesh" THEN numDevices ELSE hybridDevices

Candidate(kind, w, h, rx, ry) ==
    LET c == IF kind = "mesh" THEN MeshCandidate(w, h, deviceRadius, rx, ry)
                              ELSE HybridCandidate(w, h, rx, ry)
    IN  Node(c.x, c.y, "")

\* the candidates the do-while loop can leave with, given the devices placed
Accepted(kind, w, h, devices) ==
    { c \in { Candidate(kind, w, h, rx, ry) : rx \in RandomValues, ry \in RandomValues } :
        ~Collision(c.x, c.y, devices, deviceRadius) }

Placed(kind, devices, c) ==
    Append(devices, Node(c.x, c.y,
        IF kind = "mesh" THEN DeviceLabel(Len(devices) + 1)
                         ELSE MeshDevLabel(Len(devices) + 1)))

Randomized(kind) == kind \in {"mesh", "hybrid"}

DrawDeterministicMutDefaultBus(kind, w, h) ==
    CASE kind = "star" -> drawStarTopology(w, h)
      [] kind = "tree" -> drawTreeTopology(w, h)
      [] OTHER -> drawBusTopology(w, h, deviceRadius)

\* the switch (selectedTopology) of animate, for the kinds without randomness
DrawDeterministic(kind, w, h) ==
    CASE kind = "bus" -> drawBusTopology(w, h, deviceRadius)
      [] kind = "tree" -> drawTreeTopology(w, h)
      [] OTHER -> drawStarTopology(w, h)

DrawRandomized(kind, w, h, devices) ==
    IF kind = "mesh" THEN MeshResult(devices) ELSE HybridResult(w, h, devices)

-----------------------------------------------------------------------------
(* What one frame can get from the layout generator, with the placement    *)
(* loop run to its end: the placements it can return, and whether it can   *)
(* reach a state in which every candidate collides (it then never returns).*)

RECURSIVE Placements(_, _, _, _)
Placements(kind, w, h, devices) ==
    IF Len(devices) = ToPlace(kind) THEN {devices}
    ELSE UNION { Placements(kind, w, h, Placed(kind, devices, c)) :
                    c \in Accepted(kind, w, h, devices) }

RECURSIVE CanSpin(_, _, _, _)
CanSpin(kind, w, h, devices) ==
    /\ Len(devices) < ToPlace(kind)
    /\ \/ Accepted(kind, w, h, devices) = {}
       \/ \E c \in Accepted(kind, w, h, devices) :
              CanSpin(kind, w, h, Placed(kind, devices, c))

Layouts(kind, w, h) ==
    IF Randomized(kind)
    THEN { DrawRandomized(kind, w, h, d) : d \in Placements(kind, w, h, <<>>) }
    ELSE { DrawDeterministic(kind, w, h) }

\* currentPaths[Math.floor(Math.random() * currentPaths.length)], as a sequence
\* of one path, or of none when currentPaths is empty
RandomPath(currentPaths, rnd) ==
    IF Len(currentPaths) > 0
    THEN << currentPaths[((rnd * Len(currentPaths)) \div 1000) + 1] >>
    ELSE <<>>

PathSetOf(result) == { result.paths[i] : i \in 1..Len(result.paths) }

\* Math.pow(b.x - a.x, 2) + Math.pow(b.y - a.y, 2) of a 2-point path
PathLen2(path) == Sq(path[2].x - path[1].x) + Sq(path[2].y - path[1].y)

\* per topology and canvas width: the outcomes of the layout call and of the
\* choice of randomPath in one frame
FrameChoicesFcn ==
    [kind \in Kinds, w \in Widths |->
        { [spin |-> FALSE, randomPath |-> RandomPath(l.paths, rnd)] :
              l \in Layouts(kind, w, HeightFor(w)), rnd \in RandomValues }
        \cup (IF Randomized(kind) /\ CanSpin(kind, w, HeightFor(w), <<>>)
              THEN {[spin |-> TRUE, randomPath |-> <<>>]} ELSE {})]

\* the same function, tabulated once
FrameChoices == FrameChoicesFcn @@ <<>>

-----------------------------------------------------------------------------
(* Packet engine *)

None == -1      \* undefined / null

\* Math.sqrt rounded down, by bisection of lo..hi
ISqrtIn[n \in Nat, lo \in Nat, hi \in Nat] ==
    IF lo >= hi THEN lo
    ELSE LET mid == (lo + hi + 1) \div 2
         IN  IF mid * mid <= n THEN ISqrtIn[n, mid, hi] ELSE ISqrtIn[n, lo, mid - 1]
ISqrt(n) == ISqrtIn[n, 0, 32768]

createPacketMutNoCheck(path) ==
    << [x |-> 0, y |-> 0, path |-> path, currentSegment |-> 0, distanceTraveled |-> 0] >>

\* createPacket: a sequence of no packet (null) or one
createPacket(path) ==
    IF Len(path) < 2 THEN <<>>
    ELSE << [x |-> path[1].x, y |-> path[1].y, path |-> path,
             currentSegment |-> 0, distanceTraveled |-> 0] >>

\* the callback of packets.filter: [keep, packet] for one packet.
\* distanceTraveled is in 1/32 px; d >= segmentLength is compared on squares.
NaN == -1000000      \* the position 0 * -Infinity evaluates to

\* packet.distanceTraveled >= segmentLength, for a squared length len2
ReachedMutStrict(d, len2) == d >= 0 /\ Sq(d) > 1024 * len2

Reached(d, len2) == d >= 0 /\ Sq(d) >= 1024 * len2

\* from + (to - from) * (distanceTraveled / segmentLength)
Interpolate(from, to, d, len2) ==
    IF len2 = 0 THEN NaN
    ELSE from + ((to - from) * d) \div ISqrt(1024 * len2)

UpdatePacket(packet, deltaTime) ==
    IF packet.currentSegment >= Len(packet.path) - 1
    THEN [keep |-> FALSE, packet |-> packet]
    ELSE
        LET startNode == packet.path[packet.currentSegment + 1]
            endNode == packet.path[packet.currentSegment + 2]
            len2 == Sq(endNode.x - startNode.x) + Sq(endNode.y - startNode.y)
            d == packet.distanceTraveled + 3 * deltaTime
        IN  IF Reached(d, len2)
            THEN LET seg == packet.currentSegment + 1
                 IN  IF seg >= Len(packet.path) - 1
                     THEN [keep |-> FALSE,
                           packet |-> [packet EXCEPT !.currentSegment = seg,
                                                     !.distanceTraveled = 0]]
                     ELSE [keep |-> TRUE,
                           packet |-> [packet EXCEPT !.currentSegment = seg,
                                                     !.distanceTraveled = 0,
                                                     !.x = packet.path[seg + 1].x,
                                                     !.y = packet.path[seg + 1].y]]
            ELSE [keep |-> TRUE,
                  packet |-> [packet EXCEPT
                      !.distanceTraveled = d,
                      !.x = Interpolate(startNode.x, endNode.x, d, len2),
                      !.y = Interpolate(startNode.y, endNode.y, d, len2)]]

\* what packets.filter hands to its callback: the packets animate pushed
PacketRecords ==
    [x : Int, y : Int, path : Seq([x : Int, y : Int, label : STRING]),
     currentSegment : Nat, distanceTraveled : Int, gen : Nat, born : Nat]

\* packets.filter(callback): the callback runs once per packet, in order
PacketsFilter[packets \in Seq(PacketRecords), deltaTime \in Int] ==
    IF packets = <<>> THEN <<>>
    ELSE LET r == UpdatePacket(Head(packets), deltaTime)
         IN  (IF r.keep THEN <<r.packet>> ELSE <<>>) \o PacketsFilter[Tail(packets), deltaTime]

updatePackets(packets, deltaTime) == PacketsFilter[packets, deltaTime]

-----------------------------------------------------------------------------
(* Animation driver: the canvas useEffect *)

\* the variables an effect run declares: let packets = [], let lastTime = 0;
\* lastSpawnTime is the property packets.lastSpawnTime; topology is the
\* selectedTopology of the render the closure belongs to.  spawnedAt records
\* the time of the closure's last spawn since its loop was (re)started.
NewClosure(topology) ==
    [topology |-> topology, packets |-> <<>>, lastTime |-> 0,
     lastSpawnTime |-> None, spawnedAt |-> None]

DeadClosure == NewClosure("")

\* currentTime - (packets.lastSpawnTime || 0) > packetInterval
SpawnDue(lastSpawnTime, currentTime) ==
    currentTime - (IF lastSpawnTime = None THEN 0 ELSE lastSpawnTime) > packetInterval

\* The outcomes of one frame of a closure with the given lastSpawnTime:
\* Math.random() picks a randomPath only inside the if of the spawn test.
Choices(topology, w, lastSpawnTime, currentTime) ==
    IF SpawnDue(lastSpawnTime, currentTime)
    THEN FrameChoices[topology, w]
    ELSE { [spin |-> ch.spin, randomPath |-> <<>>] : ch \in FrameChoices[topology, w] }

\* The spawn step of animate: if (due) { if (currentPaths.length > 0) { ...
\* if (newPacket) { packets.push(newPacket); packets.lastSpawnTime = currentTime } } }
\* g is the effect run of the closure c (recorded in the packets it spawns)
spawnStep(c, g, currentTime, randomPath) ==
    LET due == SpawnDue(c.lastSpawnTime, currentTime)
        newPacket == IF due /\ randomPath # <<>> THEN createPacket(randomPath[1]) ELSE <<>>
    IN  IF newPacket = <<>> THEN c
        ELSE [c EXCEPT
                !.packets = @ \o << [x |-> newPacket[1].x, y |-> newPacket[1].y,
                                     path |-> newPacket[1].path,
                                     currentSegment |-> newPacket[1].currentSegment,
                                     distanceTraveled |-> newPacket[1].distanceTraveled,
                                     gen |-> g, born |-> currentTime] >>,
                !.lastSpawnTime = currentTime,
                !.spawnedAt = currentTime]

\* updatePackets(deltaTime) as animate calls it: packets = packets.filter(...)
\* is a new array, which does not have the lastSpawnTime property set on the
\* old one
filterStep(c, deltaTime) ==
    [c EXCEPT !.packets = updatePackets(c.packets, deltaTime),
              !.lastSpawnTime = None]

\* animate(currentTime) up to updatePackets, for a layout call that returns
animateBody(c, g, currentTime, randomPath) ==
    filterStep([spawnStep(c, g, currentTime, randomPath) EXCEPT !.lastTime = currentTime],
               currentTime - c.lastTime)

\* animate(currentTime) stuck in the placement loop: only lastTime was assigned
animateSpinning(c, currentTime) == [c EXCEPT !.lastTime = currentTime]

\* requestAnimationFrame returns an id that no callback of the list carries.
\* (The browser never repeats an id; the model takes the least id that is not
\* in the list, which may repeat the id of a callback that ran or was
\* cancelled: the only holder of ids, animationFrameId.current, is overwritten
\* with the new id by the same statement.)
FreshId(pend, stored) ==
    CHOOSE n \in 1..(Cardinality(pend) + 1) :
        /\ n \notin {cb.id : cb \in pend}
        /\ \A m \in 1..(n - 1) : m \in {cb.id : cb \in pend}

\* if (animationFrameId.current) cancelAnimationFrame(animationFrameId.current)
ResizeCancelMutNone(pend, id) == pend

ResizeCancelMutAll(pend, id) == IF id # 0 THEN {} ELSE pend

ResizeCancel(pend, id) ==
    IF id # 0 THEN { cb \in pend : cb.id # id } ELSE pend

CleanupCancelMutNone(pend, id) == pend

CleanupCancel(pend, id) ==
    IF id # 0 THEN { cb \in pend : cb.id # id } ELSE pend

\* window.removeEventListener('resize', resizeCanvas)
RemoveListenerMutKeep(lis, g) == lis

RemoveListener(lis, g) == lis \ {g}

\* lastTime = performance.now(); packets = []
ResizeResetMutKeepPackets(c, t) == [c EXCEPT !.lastTime = t]

ResizeReset(c, t) ==
    [c EXCEPT !.lastTime = t, !.packets = <<>>, !.lastSpawnTime = None,
              !.spawnedAt = None]

\* animationFrameId.current = requestAnimationFrame(animate), last line of animate
RequestNextMutNone(pend, stored, g) == pend

RequestNext(pend, stored, g) ==
    pend \cup {[id |-> FreshId(pend, stored), g |-> g]}

\* closures nothing refers to any more are garbage
Collect(cl, pend, lis, current) ==
    [g \in DOMAIN cl |->
        IF g = current \/ g \in lis \/ \E cb \in pend : cb.g = g
        THEN cl[g] ELSE DeadClosure]

\* The state after resizeCanvas of effect run g ran at time t with
\* canvas.offsetWidth = w, from the closures cl and callback list pend.
resizeCanvas(cl, pend, g, w, t, choice) ==
    LET cancelled == ResizeCancel(pend, animationFrameId)
        reset == ResizeReset(cl[g], t)
        requested == RequestNext(cancelled, animationFrameId, g)
    IN  IF choice.spin
        THEN [closure |-> [cl EXCEPT ![g] = animateSpinning(reset, t)],
              pending |-> cancelled, id |-> animationFrameId, hung |-> TRUE]
        ELSE [closure |-> [cl EXCEPT ![g] = animateBody(reset, g, t, choice.randomPath)],
              pending |-> requested,
              id |-> IF requested = cancelled THEN animationFrameId
                     ELSE FreshId(cancelled, animationFrameId),
              hung |-> FALSE]

Flip(b) == 1 - b

NoResult == [nodes |-> <<>>, paths |-> <<>>]

LayoutIdle ==
    /\ lkind = "none" /\ lwidth = 0 /\ lpc = "idle"
    /\ ldevices = <<>> /\ lattempts = 0 /\ lresult = NoResult

PacketIdle ==
    /\ pkPc = "idle" /\ pkPath = <<>> /\ pkTime = 0 /\ pkElapsed = 0
    /\ pkClosure = DeadClosure /\ pkUpdates = 0

DriverInit ==
    /\ phase = "unmounted0" /\ selectedTopology = "star"
    /\ canvasWidth = 300 /\ canvasHeight = 150    \* a canvas element's default size
    /\ gen = 0 /\ closure = <<>> /\ animationFrameId = 0
    /\ pending = {} /\ listeners = {} /\ now \in StartTimes
    /\ hung = FALSE /\ lastOp = "none" /\ frameParity = 0

Init == DriverInit /\ LayoutIdle /\ PacketIdle

\* The effect body of run g = gen + 1: declare the closure, resizeCanvas(),
\* window.addEventListener('resize', resizeCanvas)
RunEffect(cl, pend, lis, topology, w, t, choice, op) ==
    LET g == gen + 1
        r == resizeCanvas(Append(cl, NewClosure(topology)), pend, g, w, t, choice)
        lis2 == IF r.hung THEN lis ELSE lis \cup {g}
    IN  /\ gen' = g
        /\ selectedTopology' = topology
        /\ canvasWidth' = w /\ canvasHeight' = HeightFor(w)
        /\ pending' = r.pending
        /\ animationFrameId' = r.id
        /\ listeners' = lis2
        /\ closure' = Collect(r.closure, r.pending, lis2, g)
        /\ hung' = r.hung
        /\ now' = t
        /\ phase' = "mounted"
        /\ lastOp' = op
        /\ frameParity' = Flip(frameParity)
        /\ UNCHANGED <<layVars, pktVars>>

\* first render committed: the effect runs for the first time
Mount ==
    /\ phase = "unmounted0"
    /\ \E w \in Widths : \E choice \in Choices(selectedTopology, w, None, now) :
           RunEffect(closure, pending, listeners, selectedTopology, w, now, choice, "mount")

\* setSelectedTopology(k): re-render, cleanup of the previous run, effect again
TopologyChange ==
    /\ phase = "mounted" /\ ~hung /\ gen < MaxEffects
    /\ \E k \in Options \ {selectedTopology}, d \in EventDelays :
        /\ now + d <= MaxTime
        /\ \E choice \in Choices(k, canvasWidth, None, now + d) :
               RunEffect(closure,
                         CleanupCancel(pending, animationFrameId),
                         RemoveListener(listeners, gen),
                         k, canvasWidth, now + d, choice, "topology")

\* the browser runs a pending animation-frame callback with timestamp ts
FrameCallback ==
    /\ ~hung
    /\ lastOp' = "frame"
    /\ frameParity' = Flip(frameParity)
    /\ UNCHANGED <<phase, selectedTopology, canvasWidth, canvasHeight, gen, listeners, layVars, pktVars>>
    /\ \E cb \in pending, d \in Deltas :
        LET ts == now + d
            rest == pending \ {cb}
            c == closure[cb.g]
        IN  /\ ts <= MaxTime
            /\ now' = ts
            /\ \E choice \in Choices(c.topology, canvasWidth, c.lastSpawnTime, ts) :
                IF choice.spin
                THEN /\ closure' = Collect([closure EXCEPT ![cb.g] = animateSpinning(c, ts)],
                                           rest, listeners, gen)
                     /\ pending' = rest
                     /\ hung' = TRUE
                     /\ UNCHANGED animationFrameId
                ELSE \E requested \in {RequestNext(rest, animationFrameId, cb.g)},
                        stepped \in {animateBody(c, cb.g, ts, choice.randomPath)} :
                         /\ closure' = Collect([closure EXCEPT ![cb.g] = stepped],
                                               requested, listeners, gen)
                         /\ pending' = requested
                         /\ animationFrameId' = IF requested = rest THEN animationFrameId
                                                ELSE FreshId(rest, animationFrameId)
                         /\ UNCHANGED hung

\* a window resize event reaches a registered resizeCanvas listener
Resize ==
    /\ ~hung
    /\ \E g \in listeners, w \in Widths, d \in EventDelays :
        /\ now + d <= MaxTime
        /\ \E choice \in Choices(closure[g].topology, w, None, now + d) :
            LET r == resizeCanvas(closure, pending, g, w, now + d, choice)
            IN  /\ closure' = Collect(r.closure, r.pending, listeners, gen)
                /\ pending' = r.pending
                /\ animationFrameId' = r.id
                /\ hung' = r.hung
        /\ canvasWidth' = w /\ canvasHeight' = HeightFor(w)
        /\ now' = now + d
    /\ lastOp' = "resize"
    /\ frameParity' = Flip(frameParity)
    /\ UNCHANGED <<phase, selectedTopology, gen, listeners, layVars, pktVars>>

\* the component unmounts: the cleanup of the last effect run
Unmount ==
    /\ phase = "mounted" /\ ~hung
    /\ phase' = "unmounted"
    /\ listeners' = RemoveListener(listeners, gen)
    /\ pending' = CleanupCancel(pending, animationFrameId)
    /\ closure' = Collect(closure, pending', listeners', 0)
    /\ lastOp' = "unmount"
    /\ UNCHANGED <<selectedTopology, canvasWidth, canvasHeight, gen, animationFrameId,
                   now, hung, frameParity, layVars, pktVars>>

Next ==
    \/ Mount
    \/ TopologyChange
    \/ FrameCallback
    \/ Resize
    \/ Unmount

Spec == Init /\ [][Next]_vars

\* the browser eventually runs a callback that stays pending
FairSpec == Spec /\ WF_vars(FrameCallback)

-----------------------------------------------------------------------------
(* Properties of the animation driver, checked under Spec and FairSpec.    *)

Running == phase = "mounted" /\ ~hung
Current == closure[gen]
PacketsOf(c) == { c.packets[i] : i \in 1..Len(c.packets) }
MinDelta == CHOOSE d \in Deltas : \A e \in Deltas : d <= e
AfterResizeCanvas == lastOp \in {"mount", "topology", "resize"} /\ ~hung

\* C1 (as claimed): in a run of the frame loop without resize or topology
\* change, after a packet is spawned at time t no packet is spawned in a frame
\* whose timestamp is <= t + packetInterval: a frame callback that follows a
\* frame callback and spawns does so more than packetInterval after the
\* closure's previous spawn.
C1_SpawnSpacing ==
    [][ (lastOp = "frame" /\ lastOp' = "frame") =>
          \A g \in DOMAIN closure :
              ( /\ closure[g].spawnedAt # None
                /\ closure'[g].spawnedAt # None
                /\ closure'[g].spawnedAt # closure[g].spawnedAt )
              => closure'[g].spawnedAt > closure[g].spawnedAt + packetInterval ]_vars

\* C2 (as claimed): when resizeCanvas returns, the packet collection is empty.
C2_EmptyAfterResize ==
    AfterResizeCanvas => Current.packets = <<>>

\* C2 (amended): when resizeCanvas returns, no packet from before the call is
\* left: the collection is empty if the current time is <= 1000 ms, and
\* otherwise holds at most one packet, spawned by the frame step that
\* resizeCanvas itself ran and not yet moved.
C2_NoOldPacketAfterResize ==
    AfterResizeCanvas =>
        /\ Len(Current.packets) <= 1
        /\ \A p \in PacketsOf(Current) : p.born = now /\ p.distanceTraveled = 0
        /\ now <= packetInterval => Current.packets = <<>>

C2_Witness ==
    lastOp = "resize" /\ ~hung /\ Len(Current.packets) = 1 /\ now > packetInterval

\* C3: in every reachable state at most one animation-frame callback is pending.
C3_AtMostOnePending ==
    Cardinality(pending) <= 1

C3_Witness ==
    gen = 2 /\ lastOp = "resize" /\ ~hung /\ Cardinality(pending) = 1

\* C4: after the cleanup of an unmount no callback is pending, no resize
\* listener is registered, and no handler of the effect runs any more.
C4_UnmountIsTerminal ==
    phase = "unmounted" => pending = {} /\ listeners = {} /\ lastOp = "unmount"

C4_Witness ==
    phase = "unmounted" /\ gen = 2 /\ animationFrameId # 0

\* C5: after a change of selectedTopology only the new effect run can execute
\* frame steps (every pending callback and every resize listener is its own),
\* and every packet in a collection was spawned by the effect run that owns it.
C5_FreshLoopAfterTopologyChange ==
    phase = "mounted" =>
        /\ \A cb \in pending : cb.g = gen
        /\ listeners \subseteq {gen}
        /\ Current.topology = selectedTopology
        /\ \A g \in DOMAIN closure : \A p \in PacketsOf(closure[g]) : p.gen = g

C5_Witness ==
    gen = 2 /\ lastOp = "frame" /\ ~hung /\ Current.packets # <<>>

\* C6: between mount and unmount, whenever a handler has completed a frame
\* callback of the current effect run is pending, and a next frame step
\* eventually runs (while the model's clock has room for one).
C6_LoopKeepsRunning ==
    /\ [](Running => \E cb \in pending : cb.g = gen)
    /\ \A b \in {0, 1} :
          (Running /\ frameParity = b /\ now + MinDelta <= MaxTime)
              ~> (frameParity # b \/ phase = "unmounted")

C6_Witness ==
    Running /\ gen = 2 /\ lastOp = "frame" /\ pending # {}

\* per topology and canvas width: the path sets of the layouts a frame can
\* draw, tabulated once
FramePathSets ==
    [kind \in Options, w \in Widths |->
        { PathSetOf(l) : l \in Layouts(kind, w, HeightFor(w)) }] @@ <<>>

\* squared length of the longest path a frame can draw
LongestLen2(kind, w) ==
    LET lens == {0} \cup { PathLen2(p) : p \in UNION FramePathSets[kind, w] }
    IN  CHOOSE m \in lens : \A n \in lens : n <= m

\* (time to traverse the longest path) / packetInterval, rounded up: the
\* least n with 1.5 * (n * packetInterval) / 16 >= L
LiveBound(kind, w) ==
    CHOOSE n \in 0..10 :
        /\ Sq(3 * n * packetInterval) >= 1024 * LongestLen2(kind, w)
        /\ \A m \in 0..(n - 1) : Sq(3 * m * packetInterval) < 1024 * LongestLen2(kind, w)

\* C12 (as claimed): in every reachable state the number of live packets is at
\* most (traversal time of the longest path) / (1000 ms), rounded up.
C12_LiveSetBounded ==
    Running => Len(Current.packets) <= LiveBound(Current.topology, canvasWidth)

\* the values animationFrameId.current can hold: null (0) and request ids
FrameIds == 0..(MaxEffects + 1)
Scheduled(id) == \E cb \in pending : cb.id = id

SameEndpoints(p, q) == Pt(p[1]) = Pt(q[1]) /\ Pt(p[2]) = Pt(q[2])

\* C19: in every frame the path of every live packet drawn has the endpoints
\* of one of the paths of the layout generated and drawn in that frame: after a
\* frame, one layout the frame's generator call can return carries the paths
\* of all the live packets.
C19_PacketsOnDrawnLayout ==
    (Running /\ lastOp = "frame") =>
        \E drawn \in FramePathSets[Current.topology, canvasWidth] :
            \A packet \in PacketsOf(Current) :
                \E path \in drawn : SameEndpoints(packet.path, path)

-----------------------------------------------------------------------------
(* LayoutSpec: one call of a layout generator, the placement loop of mesh  *)
(* and hybrid taken one candidate at a time.                               *)

DriverIdle == DriverInit /\ now = 0

LayoutInit ==
    /\ DriverIdle /\ PacketIdle
    /\ lkind \in Kinds /\ lwidth \in LayoutWidths /\ lpc = "call"
    /\ ldevices = <<>> /\ lattempts = 0 /\ lresult = NoResult

\* star, bus, tree and the default branch: straight-line code
GenerateDeterministic ==
    /\ lpc = "call" /\ ~Randomized(lkind)
    /\ lresult' = DrawDeterministic(lkind, lwidth, HeightFor(lwidth))
    /\ lpc' = "returned"
    /\ UNCHANGED <<lkind, lwidth, ldevices, lattempts, drvVars, pktVars>>

\* mesh, hybrid: enter the for loop that places the devices
BeginPlacement ==
    /\ lpc = "call" /\ Randomized(lkind)
    /\ lpc' = "placing"
    /\ UNCHANGED <<lkind, lwidth, ldevices, lattempts, lresult, drvVars, pktVars>>

\* one iteration of the do-while loop: draw a candidate, test it
TryCandidate ==
    /\ lpc = "placing" /\ Len(ldevices) < ToPlace(lkind)
    /\ \E rx \in RandomValues, ry \in RandomValues :
        LET c == Candidate(lkind, lwidth, HeightFor(lwidth), rx, ry)
        IN  IF Collision(c.x, c.y, ldevices, deviceRadius)
            THEN /\ lattempts' = Min(lattempts + 1, MaxAttempts)
                 /\ UNCHANGED ldevices
            ELSE /\ ldevices' = Placed(lkind, ldevices, c)
                 /\ UNCHANGED lattempts
    /\ UNCHANGED <<lkind, lwidth, lpc, lresult, drvVars, pktVars>>

\* all devices placed: connect them and return the paths
FinishPlacement ==
    /\ lpc = "placing" /\ Len(ldevices) = ToPlace(lkind)
    /\ lresult' = DrawRandomized(lkind, lwidth, HeightFor(lwidth), ldevices)
    /\ lpc' = "returned"
    /\ UNCHANGED <<lkind, lwidth, ldevices, lattempts, drvVars, pktVars>>

LayoutNext ==
    \/ GenerateDeterministic
    \/ BeginPlacement
    \/ TryCandidate
    \/ FinishPlacement

LayoutSpec == LayoutInit /\ [][LayoutNext]_vars

-----------------------------------------------------------------------------
(* Properties of the layout generators, checked under LayoutSpec.          *)

Returned == lpc = "returned"
LHeight == HeightFor(lwidth)
Endpoints(path) == {path[1], path[2]}
NodeSet(result) == { result.nodes[i] : i \in 1..Len(result.nodes) }
PathSet(result) == { result.paths[i] : i \in 1..Len(result.paths) }

\* the devices of the randomized cluster of a returned mesh or hybrid layout
Cluster(kind, result) ==
    IF kind = "mesh" THEN result.nodes
    ELSE SubSeq(result.nodes, hybridDevices + 2, Len(result.nodes))

\* C7 (as claimed): a call of the mesh or hybrid generator always terminates:
\* while the placement loop still has a device to place, some candidate it can
\* draw is accepted, so the do-while loop can be left.
C7_PlacementCanFinish ==
    (lpc = "placing" /\ Len(ldevices) < ToPlace(lkind))
        => Accepted(lkind, lwidth, LHeight, ldevices) # {}

\* C8 (as claimed): for all five kinds, both endpoints of every returned path
\* are nodes that the generator placed and drew.
C8_EndpointsAreNodes_AllKinds ==
    Returned => \A p \in PathSet(lresult) : Endpoints(p) \subseteq NodeSet(lresult)

\* C8 (amended): for star, mesh, tree and hybrid both endpoints of every path
\* are drawn nodes; for bus every endpoint is the point of the bus line right
\* above a drawn device: same x, y = height / 2 = device.y - 2 * deviceRadius.
C8_EndpointsAreNodesOrBusPoints ==
    Returned =>
        \A p \in PathSet(lresult) : \A e \in Endpoints(p) :
            IF lkind = "bus"
            THEN /\ e.y = LHeight \div 2
                 /\ \E d \in NodeSet(lresult) : d.x = e.x /\ d.y = e.y + 2 * deviceRadius
            ELSE e \in NodeSet(lresult)

C8_Witness ==
    Returned /\ lkind = "bus" /\ lwidth = 260 /\ Len(lresult.paths) = 8

\* C9: when the mesh generator or the mesh part of the hybrid generator
\* returns, any two distinct devices of the randomized cluster are at distance
\* >= 4 * deviceRadius, whatever number of candidates were rejected.
C9_ClusterSpacing ==
    (Returned /\ Randomized(lkind)) =>
        LET c == Cluster(lkind, lresult)
        IN  \A i, j \in 1..Len(c) :
                i # j => Sq(c[i].x - c[j].x) + Sq(c[i].y - c[j].y) >= Sq(4 * deviceRadius)

C9_Witness ==
    /\ Returned /\ lkind = "mesh" /\ lattempts = MaxAttempts
    /\ Len(Cluster(lkind, lresult)) = numDevices

\* C10 (as claimed): star has 6 nodes and 10 directed paths, bus 5 and 8, tree
\* 7 and 14, for every canvas size, and the reverse of every path is a path too.
C10_CountsAsClaimed ==
    (Returned /\ lkind \in {"star", "bus", "tree"}) =>
        /\ lkind = "star" => Len(lresult.nodes) = 6 /\ Len(lresult.paths) = 10
        /\ lkind = "bus" => Len(lresult.nodes) = 5 /\ Len(lresult.paths) = 8
        /\ lkind = "tree" => Len(lresult.nodes) = 7 /\ Len(lresult.paths) = 14
        /\ \A p \in PathSet(lresult) : <<p[2], p[1]>> \in PathSet(lresult)

\* C10 (amended): star has 6 nodes and 10 directed paths, bus 5 and 8, tree 7
\* nodes and 12 directed paths (6 parent-child edges in both directions), for
\* every canvas size, and the reverse of every path is a path too.
C10_DeterministicCounts ==
    (Returned /\ lkind \in {"star", "bus", "tree"}) =>
        /\ lkind = "star" => Len(lresult.nodes) = 6 /\ Len(lresult.paths) = 10
        /\ lkind = "bus" => Len(lresult.nodes) = 5 /\ Len(lresult.paths) = 8
        /\ lkind = "tree" => Len(lresult.nodes) = 7 /\ Len(lresult.paths) = 12
        /\ \A p \in PathSet(lresult) : <<p[2], p[1]>> \in PathSet(lresult)

C10_Witness ==
    Returned /\ lkind = "tree" /\ lwidth = 260 /\ Len(lresult.paths) = 12

-----------------------------------------------------------------------------
(* PacketSpec: the packet engine on its own.  One spawn step of animate on *)
(* a given path, then updatePackets calls with a constant deltaTime.       *)

MaxUpdates == 3                      \* updates taken with a deltaTime <= 0

PacketElapsed == {-16, 0, 16, 100, 500}   \* deltaTime of the updates, ms
SpawnTimes == {500, 1500}                 \* currentTime of the spawning frame

\* paths handed to createPacket: those of the deterministic layouts at the
\* driver's widths, and two that have fewer than 2 points
TestPaths ==
    {<<>>, <<Node(0, 0, "")>>} \cup
    UNION { PathSetOf(DrawDeterministic(kind, w, HeightFor(w)))
              : kind \in {"star", "bus", "tree"}, w \in Widths }

PacketInit ==
    /\ DriverIdle /\ LayoutIdle
    /\ pkPc = "spawn"
    /\ pkPath \in {<<>>} \cup { <<p>> : p \in TestPaths }
    /\ pkTime \in SpawnTimes
    /\ pkElapsed \in PacketElapsed
    /\ pkClosure = NewClosure("star")
    /\ pkUpdates = 0

\* the spawn step of a frame at pkTime, with randomPath = pkPath
PacketSpawn ==
    /\ pkPc = "spawn"
    /\ pkClosure' = spawnStep(pkClosure, 1, pkTime, pkPath)
    /\ pkPc' = "update"
    /\ UNCHANGED <<pkPath, pkTime, pkElapsed, pkUpdates, drvVars, layVars>>

\* updatePackets(pkElapsed) while a packet is live
PacketUpdate ==
    /\ pkPc = "update"
    /\ pkClosure.packets # <<>>
    /\ pkElapsed > 0 \/ pkUpdates < MaxUpdates
    /\ pkClosure' = filterStep(pkClosure, pkElapsed)
    /\ pkUpdates' = pkUpdates + 1
    /\ UNCHANGED <<pkPc, pkPath, pkTime, pkElapsed, drvVars, layVars>>

PacketNext == PacketSpawn \/ PacketUpdate

PacketSpec == PacketInit /\ [][PacketNext]_vars

\* frames keep occurring
FairPacketSpec == PacketSpec /\ WF_vars(PacketUpdate)

-----------------------------------------------------------------------------
(* Properties of the packet engine, checked under PacketSpec.              *)

\* a packet was spawned on the 2-point path pkPath[1]
PkSpawned ==
    /\ pkPc = "update" /\ pkPath # <<>> /\ Len(pkPath[1]) = 2
    /\ SpawnDue(None, pkTime)
PkStart == pkPath[1][1]
PkEnd == pkPath[1][2]
PkLen2 == Sq(PkEnd.x - PkStart.x) + Sq(PkEnd.y - PkStart.y)
PkLive == pkClosure.packets # <<>>

\* C11: a packet on a 2-point path of length L > 0, updated with a constant
\* elapsed time e > 0, is live after each of its first ceil(L / (1.5 e / 16)) - 1
\* updates and removed by update number k = ceil(L / (1.5 e / 16)), that is
\* (k - 1) * 3e < 32 L <= k * 3e; and it is eventually removed when updates
\* with e > 0 keep occurring.
C11_RemovedAtCeil ==
    /\ [](( PkSpawned /\ pkElapsed > 0 /\ PkLen2 > 0 ) =>
            IF PkLive
            THEN Sq(3 * pkElapsed * pkUpdates) < 1024 * PkLen2
            ELSE /\ pkUpdates >= 1
                 /\ Sq(3 * pkElapsed * (pkUpdates - 1)) < 1024 * PkLen2
                 /\ 1024 * PkLen2 <= Sq(3 * pkElapsed * pkUpdates))
    /\ (PkSpawned /\ pkElapsed > 0) ~> ~PkLive

\* removed by the update at which the distance is exactly L (48 px in 32
\* updates of 1.5 px)
C11_Witness ==
    /\ PkSpawned /\ pkElapsed = 16 /\ PkLen2 > 0 /\ ~PkLive
    /\ pkUpdates > 1 /\ 1024 * PkLen2 = Sq(3 * pkElapsed * pkUpdates)

\* pkPath holds a path of fewer than 2 points
PkShortPath == pkPath # <<>> /\ Len(pkPath[1]) < 2

\* a closure in mid-run: one packet under way, lastSpawnTime lost by the filter
PkBusyClosure ==
    LET path == CHOOSE p \in TestPaths : Len(p) = 2 /\ PathLen2(p) > 0
    IN  filterStep(spawnStep(NewClosure("star"), 1, 1500, <<path>>), 16)

\* C13: createPacket on a path of fewer than 2 points returns null (no
\* packet), and the spawn step then leaves the packet collection and the
\* last-spawn timestamp as they were, whether the collection was empty or not.
C13_ShortPathIsNoOp ==
    (pkPc = "update" /\ PkShortPath) =>
        /\ createPacket(pkPath[1]) = <<>>
        /\ pkClosure = NewClosure("star")
        /\ spawnStep(PkBusyClosure, 1, pkTime, pkPath) = PkBusyClosure

C13_Witness ==
    /\ pkPc = "update" /\ PkShortPath /\ Len(pkPath[1]) = 1
    /\ SpawnDue(pkClosure.lastSpawnTime, pkTime)
    /\ Len(PkBusyClosure.packets) = 1

\* the packets left by an updatePackets call
PkUpdated == pkPc = "update" /\ pkUpdates >= 1
PkPackets == { pkClosure.packets[i] : i \in 1..Len(pkClosure.packets) }
SegStart(packet) == packet.path[packet.currentSegment + 1]
SegEnd(packet) == packet.path[packet.currentSegment + 2]
SegLen2(packet) == PathLen2(<<SegStart(packet), SegEnd(packet)>>)
Between(a, v, b) == (a <= v /\ v <= b) \/ (b <= v /\ v <= a)

\* C16: after every updatePackets call, whatever the elapsed time passed,
\* every packet left in the collection has
\* 0 <= distanceTraveled < length of its current segment.
C16_DistanceInSegment ==
    PkUpdated =>
        \A packet \in PkPackets :
            /\ 0 <= packet.distanceTraveled
            /\ Sq(packet.distanceTraveled) < 1024 * SegLen2(packet)

\* C17: after every updatePackets call the position of every packet left in
\* the collection is start + (end - start) * (distanceTraveled / segmentLength)
\* on its current segment, a point between the segment's start and its end.
C17_PositionOnSegment ==
    PkUpdated =>
        \A packet \in PkPackets :
            /\ packet.x = Interpolate(SegStart(packet).x, SegEnd(packet).x,
                                      packet.distanceTraveled, SegLen2(packet))
            /\ packet.y = Interpolate(SegStart(packet).y, SegEnd(packet).y,
                                      packet.distanceTraveled, SegLen2(packet))
            /\ Between(SegStart(packet).x, packet.x, SegEnd(packet).x)
            /\ Between(SegStart(packet).y, packet.y, SegEnd(packet).y)

-----------------------------------------------------------------------------
(* More properties of the layout generators, checked under LayoutSpec.     *)

\* C14: for a selectedTopology that is none of star, mesh, bus, tree, hybrid
\* the switch of animate returns, without error, the layout and the paths of
\* drawStarTopology on the same canvas, and the frame has the same outcomes
\* as a frame of 'star'.
C14_DefaultIsStar ==
    (Returned /\ lkind \notin Options) =>
        /\ lresult = drawStarTopology(lwidth, LHeight)
        /\ \A w \in Widths : FrameChoices[lkind, w] = FrameChoices["star", w]

C14_Witness ==
    Returned /\ lkind = "ring" /\ lwidth = 700 /\ Len(lresult.paths) = 2 * numDevices

\* C18: for every topology kind and every canvas size resizeCanvas can set,
\* width 0 included, the two points of every path a layout call returns
\* differ, that is every path has a length > 0.
C18_PathPointsDistinct ==
    Returned => \A path \in PathSet(lresult) : Pt(path[1]) # Pt(path[2])

====
